---- MODULE Spec2Model ----
(***************************************************************************)
(* Model of the admin user-directory hook (useUserManagement.ts) and of    *)
(* the puzzle board view (EnhancedGameBoard.tsx).                          *)
(*                                                                         *)
(* A JavaScript null / undefined list is modelled by a failure flag plus   *)
(* an empty sequence; a nullable record (ban_info) is a sequence of length *)
(* 0 (null) or 1 (the record).  Strings that are searched are sequences of *)
(* one-letter strings.  Array.prototype.filter and a remote "where" are    *)
(* SelectSeq: both keep the source order.                                  *)
(***************************************************************************)
EXTENDS Integers, Sequences, FiniteSets, TLC

\* ------------------------------------------------------------------ bounds
NumUsers == 2
MaxBans == 2

Users == 1..NumUsers
NoUser == 0

\* ------------------------------------------------------- generic helpers
Range(s) == {s[i] : i \in DOMAIN s}

Lower(ch) ==
  CASE ch = "A" -> "a"
    [] ch = "B" -> "b"
    [] ch = "C" -> "c"
    [] OTHER -> ch

\* SQL  text ILIKE '%term%'
ILikeContains(text, term) ==
  \E k \in 0..(Len(text) - Len(term)) :
    \A j \in 1..Len(term) : Lower(text[k + j]) = Lower(term[j])

\* ----------------------------------------------------------- remote store
Username(u) == IF u % 2 = 1 THEN <<"A", "b">> ELSE <<"c">>
FullName(u) == IF u % 2 = 1 THEN <<"b", "b">> ELSE <<"C", "c">>

Profile(u) ==
  [id |-> u, username |-> Username(u), full_name |-> FullName(u), created_at |-> u]

\* profiles ordered by created_at descending
ProfilesDesc == [i \in 1..NumUsers |-> Profile(NumUsers + 1 - i)]

CreditsTable == [i \in 1..NumUsers |-> [user_id |-> NumUsers + 1 - i, balance |-> 10 * i]]

SocialTable ==
  << [user_id |-> 1, platform |-> "twitter", username |-> "p1", verified |-> TRUE],
     [user_id |-> 2, platform |-> "twitter", username |-> "p2", verified |-> FALSE],
     [user_id |-> 1, platform |-> "telegram", username |-> "p1t", verified |-> FALSE] >>

WalletsTable ==
  << [user_id |-> 2, blockchain |-> "cardano", wallet_address |-> "addr2",
      wallet_name |-> "main", is_primary |-> TRUE],
     [user_id |-> 1, blockchain |-> "cardano", wallet_address |-> "addr1",
      wallet_name |-> "main", is_primary |-> TRUE],
     [user_id |-> 2, blockchain |-> "sui", wallet_address |-> "addr2b",
      wallet_name |-> "alt", is_primary |-> FALSE] >>

Terms == { <<>>, <<"a">>, <<"z">> }
Reasons == {"", "spam"}
Satellites == {"roles", "credits", "social", "wallets", "bans"}

VARIABLES
  user,        \* caller identity from useUnifiedAuth (NoUser when unknown)
  session,     \* whether supabase.auth.getSession() yields a session
  roles,       \* remote table user_roles
  bans,        \* remote table user_bans
  cache,       \* query cache: one entry per ['adminUsers', term]
  \* one mutation in flight
  mpc, mut, msess, merr, mcalls, wrote, toasts, invalidated,
  \* one directory fetch in flight
  fpc, fterm, fsess, fprofiles, fdata, ffailed, fissued, fresult, ferror,
  \* history: the last successful role write and whether the running
  \* mutation's write repeated it; per user the last successful ban-table
  \* write, and what that was when the running fetch queried the bans
  lastRoleOp, repeated, banHist, fBanHist,
  \* the board view: its props, and what a click / a render produced
  board, selectedTile, hintTiles, animations, clickAt, calls, rendered, animClass

mvars == <<mpc, mut, msess, merr, mcalls, wrote, toasts, invalidated>>
fvars == <<fpc, fterm, fsess, fprofiles, fdata, ffailed, fissued, fresult, ferror, fBanHist>>
hvars == <<lastRoleOp, repeated, banHist>>
uvars == <<user, session, roles, bans, cache, mvars, fvars, hvars>>
pvars == <<board, selectedTile, hintTiles, animations>>
bvars == <<pvars, clickAt, calls, rendered, animClass>>
vars == <<uvars, bvars>>


\* ------------------------------------------------------------- constants
NoSessionMsg == "No authenticated session found"
SelfBanMsg == "You cannot ban yourself"
DefaultReason == "No reason provided"

NoError == [message |-> "<none>"]
\* what the remote client may report: an error object whose message may be empty
RemoteErrors == { [message |-> "remote failure"], [message |-> ""] }

Kinds == {"makeAdmin", "removeAdmin", "ban", "unban"}

SuccessText(kind) ==
  CASE kind = "makeAdmin" -> "User has been made an admin."
    [] kind = "removeAdmin" -> "Admin privileges removed."
    [] kind = "ban" -> "User has been banned."
    [] kind = "unban" -> "User has been unbanned."

FallbackText(kind) ==
  CASE kind = "makeAdmin" -> "Failed to make user admin."
    [] kind = "removeAdmin" -> "Failed to remove admin privileges."
    [] kind = "ban" -> "Failed to ban user."
    [] kind = "unban" -> "Failed to unban user."

\* ---------------------------------------------------------- remote writes
\* upsert on the role-grant table: the row conflicts with an existing grant
\* of the same (user_id, role), which it replaces; otherwise it is inserted.
Upsert(table, row) ==
  IF \E i \in DOMAIN table : table[i].user_id = row.user_id /\ table[i].role = row.role
  THEN [i \in DOMAIN table |->
          IF table[i].user_id = row.user_id /\ table[i].role = row.role
          THEN row ELSE table[i]]
  ELSE Append(table, row)

MakeAdminInsert(table, userId) == Append(table, [user_id |-> userId, role |-> "admin"])

MakeAdminWrite(table, userId) == Upsert(table, [user_id |-> userId, role |-> "admin"])

IsAdminGrantOf(r, userId) == r.user_id = userId /\ r.role = "admin"

RemoveAdminWrite(table, userId) ==
  LET Keep(r) == ~IsAdminGrantOf(r, userId) IN SelectSeq(table, Keep)

BanWrite(table, userId, reason, by) ==
  Append(table, [user_id |-> userId,
                 banned_by |-> by,
                 reason |-> IF reason = "" THEN DefaultReason ELSE reason,
                 banned_at |-> Len(table) + 1,
                 is_active |-> TRUE,
                 unbanned_at |-> 0])

\* the update reaches only the oldest matching record
UnbanOldestOnly(table, userId) ==
  LET hits == {i \in DOMAIN table : table[i].user_id = userId /\ table[i].is_active}
  IN [i \in DOMAIN table |->
        IF i \in hits /\ (\A j \in hits : i <= j)
        THEN [table[i] EXCEPT !.is_active = FALSE, !.unbanned_at = Len(table)]
        ELSE table[i]]

\* update ... where user_id = userId and is_active: every matching record.
\* The timestamp is a logical clock, the number of ban records so far.
UnbanWrite(table, userId) ==
  [i \in DOMAIN table |->
     IF table[i].user_id = userId /\ table[i].is_active
     THEN [table[i] EXCEPT !.is_active = FALSE, !.unbanned_at = Len(table)]
     ELSE table[i]]

\* only the entry of the empty search term is invalidated
InvalidateExactKey(c) ==
  [t \in DOMAIN c |-> IF t = <<>> /\ c[t] # "absent" THEN "stale" ELSE c[t]]

\* queryClient.invalidateQueries({ queryKey: ['adminUsers'] }): every cached
\* entry whose key starts with 'adminUsers' becomes stale.
InvalidateQueries(c) == [t \in DOMAIN c |-> IF c[t] = "absent" THEN "absent" ELSE "stale"]

SuccessToast(kind) == [title |-> "Success", description |-> SuccessText(kind), variant |-> "default"]

ErrorToast(kind, error) ==
  [title |-> "Error",
   description |-> IF error.message # "" THEN error.message ELSE FallbackText(kind),
   variant |-> "destructive"]

\* ------------------------------------------------------------- mutations
NoMutation == [kind |-> "none", userId |-> NoUser, reason |-> ""]
NoRoleOp == [kind |-> "none", userId |-> NoUser]

\* mutation.mutate(...): the mutation function starts and awaits getSession()
Mutate(kind, userId, reason) ==
  /\ mpc = "idle"
  /\ kind = "ban" => Len(bans) < MaxBans
  /\ kind # "ban" => reason = ""
  /\ mpc' = "getSession"
  /\ mut' = [kind |-> kind, userId |-> userId, reason |-> reason]
  /\ msess' = "pending"
  /\ merr' = NoError
  /\ mcalls' = <<>>
  /\ wrote' = FALSE
  /\ toasts' = <<>>
  /\ invalidated' = FALSE
  /\ repeated' = FALSE
  /\ UNCHANGED <<user, session, roles, bans, cache, fvars, lastRoleOp, banHist, bvars>>

\* if (userId === user?.id), which only the ban mutation has
IsSelfBanNever(kind, userId, caller) == FALSE

IsSelfBan(kind, userId, caller) == kind = "ban" /\ userId = caller

\* the self-ban check placed before the session lookup
MutGetSessionSelfFirst ==
  /\ mpc = "getSession"
  /\ IF IsSelfBan(mut.kind, mut.userId, user)
     THEN /\ mcalls' = mcalls
          /\ msess' = IF session THEN "present" ELSE "missing"
          /\ merr' = [message |-> SelfBanMsg]
          /\ mpc' = "onError"
     ELSE /\ mcalls' = Append(mcalls, "getSession")
          /\ msess' = IF session THEN "present" ELSE "missing"
          /\ merr' = IF session THEN merr ELSE [message |-> NoSessionMsg]
          /\ mpc' = IF session THEN "write" ELSE "onError"
  /\ UNCHANGED <<user, session, roles, bans, cache, mut, wrote, toasts, invalidated,
                 fvars, hvars, bvars>>

\* getSession() resolves; the checks that follow run in the same turn
MutGetSession ==
  /\ mpc = "getSession"
  /\ mcalls' = Append(mcalls, "getSession")
  /\ msess' = IF session THEN "present" ELSE "missing"
  /\ IF ~session
     THEN /\ merr' = [message |-> NoSessionMsg]
          /\ mpc' = "onError"
     ELSE IF IsSelfBan(mut.kind, mut.userId, user)
     THEN /\ merr' = [message |-> SelfBanMsg]
          /\ mpc' = "onError"
     ELSE /\ merr' = merr
          /\ mpc' = "write"
  /\ UNCHANGED <<user, session, roles, bans, cache, mut, wrote, toasts, invalidated,
                 fvars, hvars, bvars>>

\* the table the mutation writes, after the write
WrittenRoles ==
  CASE mut.kind = "makeAdmin" -> MakeAdminWrite(roles, mut.userId)
    [] mut.kind = "removeAdmin" -> RemoveAdminWrite(roles, mut.userId)
    [] OTHER -> roles

WrittenBans ==
  CASE mut.kind = "ban" -> BanWrite(bans, mut.userId, mut.reason, user)
    [] mut.kind = "unban" -> UnbanWrite(bans, mut.userId)
    [] OTHER -> bans

\* the remote write resolves without an error
MutWriteOk ==
  /\ mpc = "write"
  /\ mcalls' = Append(mcalls, "write")
  /\ roles' = WrittenRoles
  /\ bans' = WrittenBans
  /\ wrote' = TRUE
  /\ mpc' = "onSuccess"
  /\ lastRoleOp' = IF mut.kind \in {"makeAdmin", "removeAdmin"}
                   THEN [kind |-> mut.kind, userId |-> mut.userId] ELSE lastRoleOp
  /\ repeated' = (lastRoleOp = [kind |-> mut.kind, userId |-> mut.userId])
  /\ banHist' = IF mut.kind \in {"ban", "unban"}
                THEN [banHist EXCEPT ![mut.userId] = mut.kind] ELSE banHist
  /\ UNCHANGED <<user, session, cache, mut, msess, merr, toasts, invalidated, fvars, bvars>>

\* the remote write resolves with an error: nothing is written, it is thrown
MutWriteError ==
  /\ mpc = "write"
  /\ mcalls' = Append(mcalls, "write")
  /\ \E e \in RemoteErrors : merr' = e
  /\ mpc' = "onError"
  /\ UNCHANGED <<user, session, roles, bans, cache, mut, msess, wrote, toasts, invalidated,
                 fvars, hvars, bvars>>

MutOnSuccess ==
  /\ mpc = "onSuccess"
  /\ cache' = InvalidateQueries(cache)
  /\ invalidated' = TRUE
  /\ toasts' = Append(toasts, SuccessToast(mut.kind))
  /\ mpc' = "idle"
  /\ UNCHANGED <<user, session, roles, bans, mut, msess, merr, mcalls, wrote,
                 fvars, hvars, bvars>>

MutOnError ==
  /\ mpc = "onError"
  /\ toasts' = Append(toasts, ErrorToast(mut.kind, merr))
  /\ mpc' = "idle"
  /\ UNCHANGED <<user, session, roles, bans, cache, mut, msess, merr, mcalls, wrote, invalidated,
                 fvars, hvars, bvars>>

\* the auth collaborator: the session appears or expires
SessionChange ==
  /\ session' = ~session
  /\ UNCHANGED <<user, roles, bans, cache, mvars, fvars, hvars, bvars>>

\* ------------------------------------------------------- directory fetch
NoData == [roles |-> <<>>, credits |-> <<>>, social |-> <<>>, wallets |-> <<>>, bans |-> <<>>]

MatchesTerm(p, term) ==
  term = <<>> \/ ILikeContains(p.username, term) \/ ILikeContains(p.full_name, term)

ProfileQuery(term) ==
  LET Keep(p) == MatchesTerm(p, term) IN SelectSeq(ProfilesDesc, Keep)

UserIds(profiles) == {profiles[i].id : i \in DOMAIN profiles}

\* .in('user_id', userIds)
InUserIds(table, userIds) ==
  LET Keep(r) == r.user_id \in userIds IN SelectSeq(table, Keep)

\* .in('user_id', userIds).eq('is_active', true), with the selected columns
ActiveBansQuery(table, userIds) ==
  LET Keep(r) == r.user_id \in userIds /\ r.is_active
      rows == SelectSeq(table, Keep)
  IN [i \in DOMAIN rows |->
        [user_id |-> rows[i].user_id, reason |-> rows[i].reason,
         banned_at |-> rows[i].banned_at, is_active |-> rows[i].is_active]]

SatelliteQuery(sat, userIds) ==
  CASE sat = "roles" -> InUserIds(roles, userIds)
    [] sat = "credits" -> InUserIds(CreditsTable, userIds)
    [] sat = "social" -> InUserIds(SocialTable, userIds)
    [] sat = "wallets" -> InUserIds(WalletsTable, userIds)
    [] sat = "bans" -> ActiveBansQuery(bans, userIds)

\* rows?.filter(r => r.user_id === id) || []
RowsOf(rows, id) == LET Keep(r) == r.user_id = id IN SelectSeq(rows, Keep)

\* the last match instead of the first
LastOf(rows, id) ==
  LET hits == {i \in DOMAIN rows : rows[i].user_id = id}
  IN IF hits = {} THEN <<>>
     ELSE <<rows[CHOOSE i \in hits : \A j \in hits : j <= i]>>

\* rows?.find(r => r.user_id === id) || null
FirstOf(rows, id) ==
  LET hits == {i \in DOMAIN rows : rows[i].user_id = id}
  IN IF hits = {} THEN <<>>
     ELSE <<rows[CHOOSE i \in hits : \A j \in hits : i <= j]>>

Merge(profiles, data) ==
  [i \in DOMAIN profiles |->
     [id |-> profiles[i].id,
      username |-> profiles[i].username,
      full_name |-> profiles[i].full_name,
      created_at |-> profiles[i].created_at,
      user_roles |-> RowsOf(data.roles, profiles[i].id),
      user_credits |-> RowsOf(data.credits, profiles[i].id),
      social_accounts |-> RowsOf(data.social, profiles[i].id),
      wallets |-> RowsOf(data.wallets, profiles[i].id),
      ban_info |-> FirstOf(data.bans, profiles[i].id)]]

NextSatellite(sat) ==
  CASE sat = "roles" -> "credits"
    [] sat = "credits" -> "social"
    [] sat = "social" -> "wallets"
    [] sat = "wallets" -> "bans"

NoBanHist == [u \in Users |-> "none"]

\* if (!profiles || profiles.length === 0)
NoProfilesNever(profiles) == FALSE

NoProfiles(profiles) == Len(profiles) = 0

\* the query function starts (enabled only when the caller is known)
FetchStart(term) ==
  /\ user # NoUser
  /\ fpc \in {"idle", "done", "error"}
  /\ fpc' = "getSession"
  /\ fterm' = term
  /\ fsess' = "pending"
  /\ fprofiles' = <<>>
  /\ fdata' = NoData
  /\ ffailed' = {}
  /\ fissued' = {}
  /\ fresult' = <<>>
  /\ ferror' = ""
  /\ fBanHist' = NoBanHist
  /\ UNCHANGED <<user, session, roles, bans, cache, mvars, hvars, bvars>>

FetchGetSession ==
  /\ fpc = "getSession"
  /\ fsess' = IF session THEN "present" ELSE "missing"
  /\ IF ~session
     THEN /\ ferror' = NoSessionMsg
          /\ fpc' = "error"
     ELSE /\ ferror' = ferror
          /\ fpc' = "profiles"
  /\ UNCHANGED <<user, session, roles, bans, cache, mvars, fterm, fprofiles, fdata,
                 ffailed, fissued, fresult, fBanHist, hvars, bvars>>

FetchProfilesError ==
  /\ fpc = "profiles"
  /\ fissued' = fissued \cup {"profiles"}
  /\ ferror' = "profile query failed"
  /\ fpc' = "error"
  /\ UNCHANGED <<user, session, roles, bans, cache, mvars, fterm, fsess, fprofiles, fdata,
                 ffailed, fresult, fBanHist, hvars, bvars>>

FetchProfilesOk ==
  /\ fpc = "profiles"
  /\ fissued' = fissued \cup {"profiles"}
  /\ LET profiles == ProfileQuery(fterm)
     IN IF NoProfiles(profiles)
        THEN /\ fresult' = <<>>
             /\ fprofiles' = fprofiles
             /\ fpc' = "done"
             /\ cache' = [cache EXCEPT ![fterm] = "fresh"]
        ELSE /\ fprofiles' = profiles
             /\ fresult' = fresult
             /\ fpc' = "roles"
             /\ cache' = cache
  /\ UNCHANGED <<user, session, roles, bans, mvars, fterm, fsess, fdata, ffailed, ferror,
                 fBanHist, hvars, bvars>>

\* a satellite error thrown instead of logged
FetchSatelliteThrows(sat, ok) ==
  /\ sat \in {"roles", "credits", "social", "wallets"}
  /\ fpc = sat
  /\ fissued' = fissued \cup {sat}
  /\ IF ok
     THEN /\ fdata' = [fdata EXCEPT ![sat] = SatelliteQuery(sat, UserIds(fprofiles))]
          /\ ffailed' = ffailed
          /\ ferror' = ferror
          /\ fpc' = NextSatellite(sat)
     ELSE /\ fdata' = fdata
          /\ ffailed' = ffailed \cup {sat}
          /\ ferror' = "satellite query failed"
          /\ fpc' = "error"
  /\ UNCHANGED <<user, session, roles, bans, cache, mvars, fterm, fsess, fprofiles, fresult,
                 fBanHist, hvars, bvars>>

\* one of the first four satellite queries resolves, with rows or with an
\* error (then data is null and the error is only logged)
FetchSatellite(sat, ok) ==
  /\ sat \in {"roles", "credits", "social", "wallets"}
  /\ fpc = sat
  /\ fissued' = fissued \cup {sat}
  /\ IF ok
     THEN /\ fdata' = [fdata EXCEPT ![sat] = SatelliteQuery(sat, UserIds(fprofiles))]
          /\ ffailed' = ffailed
     ELSE /\ fdata' = fdata
          /\ ffailed' = ffailed \cup {sat}
  /\ fpc' = NextSatellite(sat)
  /\ UNCHANGED <<user, session, roles, bans, cache, mvars, fterm, fsess, fprofiles, fresult,
                 ferror, fBanHist, hvars, bvars>>

\* the ban query resolves; the merge and the return follow in the same turn
FetchBansAndMerge(ok) ==
  /\ fpc = "bans"
  /\ fissued' = fissued \cup {"bans"}
  /\ LET data == IF ok
                 THEN [fdata EXCEPT !.bans = SatelliteQuery("bans", UserIds(fprofiles))]
                 ELSE fdata
     IN /\ fdata' = data
        /\ fresult' = Merge(fprofiles, data)
  /\ ffailed' = IF ok THEN ffailed ELSE ffailed \cup {"bans"}
  /\ fBanHist' = banHist
  /\ fpc' = "done"
  /\ cache' = [cache EXCEPT ![fterm] = "fresh"]
  /\ UNCHANGED <<user, session, roles, bans, mvars, fterm, fsess, fprofiles, ferror,
                 hvars, bvars>>

\* ------------------------------------------------------------ board view
BoardRows == 2
BoardCols == 2
MaxAnims == 2

Cells == (1..BoardRows) \X (1..BoardCols)
NoCell == <<0, 0>>

TileTypes ==
  << "POOP", "TOILET", "TOILET_PAPER", "FART", "BANANA", "BELL",
     "STRIPED_HORIZONTAL", "STRIPED_VERTICAL", "WRAPPED", "COLOR_BOMB",
     "BLOCKED", "EMPTY" >>

AnimationTypes == {"match", "drop", "invalid", "cascade"}
NoTiles == {NoCell}

\* tile === TileType.BLOCKED || tile === TileType.EMPTY
IsSwallowedBlockedOnly(tile) == tile = "BLOCKED"

IsSwallowed(tile) == tile = "BLOCKED" \/ tile = "EMPTY"

\* what handleTileClick(row, col) passes to onTileClick
HandleTileClick(b, row, col) ==
  IF IsSwallowed(b[<<row, col>>]) THEN <<>> ELSE << <<row, col>> >>

\* animations.filter(anim => anim.tiles && anim.tiles.some(...))
RelevantAnimations(anims, row, col) ==
  LET Covers(anim) == anim.tiles # NoTiles /\ <<row, col>> \in anim.tiles
  IN SelectSeq(anims, Covers)

EarliestAnimation(relevant) == relevant[1]

LatestAnimation(relevant) == relevant[Len(relevant)]

GetAnimationClasses(anims, row, col) ==
  IF Len(anims) = 0 THEN ""
  ELSE LET relevant == RelevantAnimations(anims, row, col)
       IN IF Len(relevant) = 0 THEN ""
          ELSE LET type == LatestAnimation(relevant).type
               IN CASE type = "match" -> "animate-ping "
                    [] type = "drop" -> "animate-bounce "
                    [] type = "invalid" -> "animate-pulse "
                    [] OTHER -> ""

NoClasses == [c \in Cells |-> ""]

\* a cell's onClick fires
Click(row, col) ==
  /\ clickAt' = <<row, col>>
  /\ calls' = HandleTileClick(board, row, col)
  /\ UNCHANGED <<uvars, pvars, rendered, animClass>>

\* the component renders: every cell gets its animation classes
Render ==
  /\ rendered' = TRUE
  /\ animClass' = [c \in Cells |-> GetAnimationClasses(animations, c[1], c[2])]
  /\ UNCHANGED <<uvars, pvars, clickAt, calls>>

\* boards in which every cell takes every tile kind
BoardOf(shift) ==
  [c \in Cells |->
     TileTypes[(((c[1] - 1) * BoardCols + (c[2] - 1) + shift) % Len(TileTypes)) + 1]]

Boards == {BoardOf(shift) : shift \in 0..(Len(TileTypes) - 1)}

\* the cell sets an animation event may carry: none at all (no tiles field),
\* the empty list, one cell, a whole row, or the whole board
TileSets ==
  {NoTiles, {}, Cells} \cup {{c} : c \in Cells}
    \cup {{c \in Cells : c[1] = r} : r \in 1..BoardRows}

AnimationEvents == [type : AnimationTypes, tiles : TileSets]

SeqsUpTo(S, n) == UNION {[1..k -> S] : k \in 0..n}

\* ----------------------------------------------------------------- system
InitRoles ==
  { <<>>,
    << [user_id |-> 2, role |-> "user"],
       [user_id |-> 1, role |-> "admin"],
       [user_id |-> 1, role |-> "user"] >> }

OldBan(u, active) ==
  [user_id |-> u, banned_by |-> NoUser, reason |-> "old", banned_at |-> 0,
   is_active |-> active, unbanned_at |-> IF active THEN 0 ELSE 1]

InitBans ==
  { <<>>,
    << OldBan(2, FALSE), OldBan(2, TRUE), OldBan(1, TRUE),
       [OldBan(2, TRUE) EXCEPT !.reason = "older"] >> }

ColdCache == [t \in Terms |-> "absent"]
WarmCache == [t \in Terms |-> IF t = <<"z">> THEN "absent" ELSE "fresh"]

InitBoardIdle ==
  /\ board = BoardOf(0)
  /\ selectedTile = NoCell
  /\ hintTiles = <<>>
  /\ animations = <<>>
  /\ clickAt = NoCell
  /\ calls = <<>>
  /\ rendered = FALSE
  /\ animClass = NoClasses

InitUsersIdle ==
  /\ mpc = "idle"
  /\ mut = NoMutation
  /\ msess = "pending"
  /\ fsess = "pending"
  /\ repeated = FALSE
  /\ merr = NoError
  /\ mcalls = <<>>
  /\ wrote = FALSE
  /\ toasts = <<>>
  /\ invalidated = FALSE
  /\ fpc = "idle"
  /\ fterm = <<>>
  /\ fprofiles = <<>>
  /\ fdata = NoData
  /\ ffailed = {}
  /\ fissued = {}
  /\ fresult = <<>>
  /\ ferror = ""
  /\ fBanHist = NoBanHist
  /\ lastRoleOp = NoRoleOp
  /\ banHist = NoBanHist

InitHookIdle ==
  /\ user = NoUser
  /\ session = FALSE
  /\ roles = <<>>
  /\ bans = <<>>
  /\ cache = ColdCache
  /\ InitUsersIdle

\* the whole hook: any caller, any mutation, any fetch
Init ==
  /\ user \in {NoUser, 1}
  /\ session \in BOOLEAN
  /\ roles \in InitRoles
  /\ bans \in InitBans
  /\ cache = ColdCache
  /\ InitUsersIdle
  /\ InitBoardIdle

Next ==
  \/ SessionChange
  \/ \E kind \in Kinds, userId \in Users, reason \in Reasons : Mutate(kind, userId, reason)
  \/ MutGetSession
  \/ MutWriteOk
  \/ MutWriteError
  \/ MutOnSuccess
  \/ MutOnError
  \/ \E term \in Terms : FetchStart(term)
  \/ FetchGetSession
  \/ FetchProfilesError
  \/ FetchProfilesOk
  \/ \E sat \in Satellites \ {"bans"}, ok \in BOOLEAN : FetchSatellite(sat, ok)
  \/ \E ok \in BOOLEAN : FetchBansAndMerge(ok)

Spec == Init /\ [][Next]_vars

\* the directory fetch alone, over the stores a session of the admin page finds
InitFetch == Init

NextFetch ==
  \/ SessionChange
  \/ \E term \in Terms : FetchStart(term)
  \/ FetchGetSession
  \/ FetchProfilesError
  \/ FetchProfilesOk
  \/ \E sat \in Satellites \ {"bans"}, ok \in BOOLEAN : FetchSatellite(sat, ok)
  \/ \E ok \in BOOLEAN : FetchBansAndMerge(ok)

SpecFetch == InitFetch /\ [][NextFetch]_vars

\* the four mutations of a signed-in admin (user 1), over a warm query cache
InitMut ==
  /\ user = 1
  /\ session \in BOOLEAN
  /\ roles = <<>>
  /\ bans = <<>>
  /\ cache = WarmCache
  /\ InitUsersIdle
  /\ InitBoardIdle

NextMut ==
  \/ SessionChange
  \/ \E kind \in Kinds, userId \in Users, reason \in {""} : Mutate(kind, userId, reason)
  \/ MutGetSession
  \/ MutWriteOk
  \/ MutWriteError
  \/ MutOnSuccess
  \/ MutOnError

SpecMut == InitMut /\ [][NextMut]_vars

\* promote and demote alone
InitRolesOnly ==
  /\ user = 1
  /\ session \in BOOLEAN
  /\ roles \in InitRoles
  /\ bans = <<>>
  /\ cache = WarmCache
  /\ InitUsersIdle
  /\ InitBoardIdle

NextRoles ==
  \/ SessionChange
  \/ \E kind \in {"makeAdmin", "removeAdmin"}, userId \in Users : Mutate(kind, userId, "")
  \/ MutGetSession
  \/ MutWriteOk
  \/ MutWriteError
  \/ MutOnSuccess
  \/ MutOnError

SpecRoles == InitRolesOnly /\ [][NextRoles]_vars

\* ban and unban by a signed-in admin, with directory fetches of every profile
InitBan ==
  /\ user = 1
  /\ session \in BOOLEAN
  /\ roles = <<>>
  /\ bans = <<>>
  /\ cache = ColdCache
  /\ InitUsersIdle
  /\ InitBoardIdle

NextBan ==
  \/ SessionChange
  \/ \E kind \in {"ban", "unban"}, userId \in Users :
       Mutate(kind, userId, IF kind = "ban" THEN "spam" ELSE "")
  \/ MutGetSession
  \/ MutWriteOk
  \/ MutWriteError
  \/ MutOnSuccess
  \/ MutOnError
  \/ FetchStart(<<>>)
  \/ FetchGetSession
  \/ FetchProfilesError
  \/ FetchProfilesOk
  \/ \E sat \in Satellites \ {"bans"} : FetchSatellite(sat, TRUE)
  \/ \E ok \in BOOLEAN : FetchBansAndMerge(ok)

SpecBan == InitBan /\ [][NextBan]_vars

\* clicks on the board, under any selection, hint and running animation
InitClick ==
  /\ InitHookIdle
  /\ board \in Boards
  /\ selectedTile \in Cells \cup {NoCell}
  /\ hintTiles \in SeqsUpTo(Cells, 1)
  /\ animations \in SeqsUpTo(AnimationEvents, 1)
  /\ clickAt = NoCell
  /\ calls = <<>>
  /\ rendered = FALSE
  /\ animClass = NoClasses

NextClick == \E row \in 1..BoardRows, col \in 1..BoardCols : Click(row, col)

SpecClick == InitClick /\ [][NextClick]_vars

\* renders of the board under any animation list
InitAnim ==
  /\ InitHookIdle
  /\ board = BoardOf(0)
  /\ selectedTile = NoCell
  /\ hintTiles = <<>>
  /\ animations \in SeqsUpTo(AnimationEvents, MaxAnims)
  /\ clickAt = NoCell
  /\ calls = <<>>
  /\ rendered = FALSE
  /\ animClass = NoClasses

NextAnim == Render

SpecAnim == InitAnim /\ [][NextAnim]_vars

\* ================================================================= claims
Settled == mpc = "idle" /\ mut.kind # "none"
SelfBanCall == mut.kind = "ban" /\ mut.userId = user

\* C1: a ban whose target is the caller never issues the write to the ban
\* table, never invalidates the directory cache and never shows a success
\* notification; once settled it has shown exactly one error notification.
C1_SelfBanRejected ==
  SelfBanCall =>
    /\ "write" \notin Range(mcalls)
    /\ ~wrote
    /\ ~invalidated
    /\ mpc \notin {"write", "onSuccess"}
    /\ \A i \in DOMAIN toasts : toasts[i].title = "Error"
    /\ Settled => Len(toasts) = 1

C1_Witness ==
  /\ Settled
  /\ SelfBanCall
  /\ msess = "present"
  /\ Len(toasts) = 1
  /\ toasts[1].description = SelfBanMsg

\* C2 as stated: a ban whose target is the caller makes no network call at
\* all, the session lookup included, and always ends in the self-ban error.
C2_NoCallBeforeSelfBan ==
  SelfBanCall =>
    /\ mcalls = <<>>
    /\ mpc \in {"onError", "idle"} => merr.message = SelfBanMsg

\* C2 amended: a ban whose target is the caller makes exactly one call, the
\* session lookup, and never the remote write; it ends in the authentication
\* error when the lookup finds no session and in the self-ban error when it
\* finds one, never in a remote error.
C2_SelfBanAfterSession ==
  SelfBanCall =>
    /\ mpc = "getSession" => mcalls = <<>>
    /\ mpc # "getSession" =>
         /\ mcalls = <<"getSession">>
         /\ mpc \in {"onError", "idle"}
         /\ msess = "missing" => merr.message = NoSessionMsg
         /\ msess = "present" => merr.message = SelfBanMsg
         /\ msess # "pending"

C2_Witness ==
  /\ SelfBanCall
  /\ mpc = "onError"
  /\ msess = "missing"
  /\ merr.message = NoSessionMsg
  /\ mcalls = <<"getSession">>

\* C3: when a mutation settles, every cached directory query (whatever its
\* search term) is stale and the success notification is shown exactly if
\* the remote write succeeded; otherwise the cache is as it was and the error
\* notification carries the error's message, or the mutation's fallback text
\* when the message is empty.
C3_SettleContract ==
  [][ (mpc \in {"onSuccess", "onError"} /\ mpc' = "idle") =>
        IF wrote
        THEN /\ \A t \in Terms : cache'[t] = IF cache[t] = "absent" THEN "absent" ELSE "stale"
             /\ invalidated'
             /\ toasts' = << [title |-> "Success",
                              description |-> SuccessText(mut.kind),
                              variant |-> "default"] >>
        ELSE /\ cache' = cache
             /\ ~invalidated'
             /\ merr # NoError
             /\ toasts' = << [title |-> "Error",
                              description |-> IF merr.message = ""
                                              THEN FallbackText(mut.kind)
                                              ELSE merr.message,
                              variant |-> "destructive"] >>
    ]_vars

C3_Witness ==
  /\ Settled
  /\ wrote
  /\ invalidated
  /\ mut.kind = "unban"
  /\ cache[<<>>] = "stale"
  /\ cache[<<"a">>] = "stale"
  /\ cache[<<"z">>] = "absent"
  /\ toasts = <<SuccessToast("unban")>>

\* C4: a satellite query is issued only after the session lookup found a
\* session and the profile query returned at least one profile; a fetch whose
\* term matches no profile returns the empty list without a satellite query.
C4_SatellitesNeedProfiles ==
  /\ fissued \cap Satellites # {} =>
       /\ fsess = "present"
       /\ "profiles" \in fissued
       /\ Len(fprofiles) >= 1
       /\ ferror = ""
  /\ (fpc = "done" /\ \A u \in Users : ~MatchesTerm(Profile(u), fterm)) =>
       /\ fresult = <<>>
       /\ fissued = {"profiles"}

C4_Witness ==
  /\ fpc = "done"
  /\ fterm = <<"z">>
  /\ fresult = <<>>
  /\ fissued = {"profiles"}

StoreOf(sat) ==
  CASE sat = "roles" -> roles
    [] sat = "credits" -> CreditsTable
    [] sat = "social" -> SocialTable
    [] sat = "wallets" -> WalletsTable

FieldOf(rec, sat) ==
  CASE sat = "roles" -> rec.user_roles
    [] sat = "credits" -> rec.user_credits
    [] sat = "social" -> rec.social_accounts
    [] sat = "wallets" -> rec.wallets

CountOf(table, id) == Cardinality({j \in DOMAIN table : table[j].user_id = id})

\* C5: once the session lookup and the profile query succeeded, no failure
\* of satellite queries aborts the fetch: it returns one record per profile,
\* a failed satellite shows as the empty list (or no ban), a satellite that
\* succeeded shows every row the store holds for that user; a missing session
\* or a failed profile query ends the fetch with an error and no result.
C5_SatelliteFailuresDegrade ==
  /\ fissued \cap Satellites # {} => fpc # "error"
  /\ (fpc = "done" /\ Len(fprofiles) >= 1) =>
       /\ Len(fresult) = Len(fprofiles)
       /\ \A i \in DOMAIN fresult :
            /\ fresult[i].id = fprofiles[i].id
            /\ \A sat \in Satellites \ {"bans"} :
                 IF sat \in ffailed
                 THEN FieldOf(fresult[i], sat) = <<>>
                 ELSE /\ Len(FieldOf(fresult[i], sat)) = CountOf(StoreOf(sat), fresult[i].id)
                      /\ \A r \in Range(FieldOf(fresult[i], sat)) :
                           r \in Range(StoreOf(sat)) /\ r.user_id = fresult[i].id
            /\ IF "bans" \in ffailed
               THEN fresult[i].ban_info = <<>>
               ELSE (fresult[i].ban_info # <<>>) <=>
                      (\E j \in DOMAIN bans : bans[j].user_id = fresult[i].id /\ bans[j].is_active)
  /\ fsess = "missing" =>
       /\ fpc = "error"
       /\ ferror = NoSessionMsg
       /\ fissued = {}
  /\ ("profiles" \in fissued /\ Len(fprofiles) = 0 /\ fpc # "done") => fpc = "error"
  /\ fpc = "error" => (ferror # "" /\ fresult = <<>> /\ fissued \cap Satellites = {})

C5_Witness ==
  /\ fpc = "done"
  /\ fterm = <<>>
  /\ ffailed = {"roles", "wallets", "bans"}
  /\ Len(fresult) = NumUsers
  /\ \E i \in DOMAIN fresult :
       /\ fresult[i].id = 1
       /\ fresult[i].user_roles = <<>>
       /\ fresult[i].ban_info = <<>>
       /\ Len(fresult[i].social_accounts) = 2
       /\ CountOf(roles, 1) = 2
       /\ \E j \in DOMAIN bans : bans[j].user_id = 1 /\ bans[j].is_active

\* the k-th (from 1) index of table whose row belongs to user id
KthIndexOf(table, id, k) ==
  CHOOSE j \in DOMAIN table :
    /\ table[j].user_id = id
    /\ Cardinality({x \in DOMAIN table : x < j /\ table[x].user_id = id}) = k - 1

\* out is exactly the rows of table that belong to user id, in table order
IsRowsInOrder(out, table, id) ==
  /\ Len(out) = CountOf(table, id)
  /\ \A k \in DOMAIN out : out[k] = table[KthIndexOf(table, id, k)]

\* C6: the merge returns one record per profile in profile order; each
\* record's roles, credits, social accounts and wallets are exactly the rows
\* of the matching satellite result with that user_id, in the order of that
\* result; ban_info is the first ban row with that user_id, or null.
C6_MergeByUserId ==
  (fpc = "done" /\ Len(fprofiles) >= 1) =>
    /\ Len(fresult) = Len(fprofiles)
    /\ \A i \in DOMAIN fresult :
         LET id == fprofiles[i].id
             rec == fresult[i]
         IN /\ rec.id = id
            /\ rec.username = fprofiles[i].username
            /\ rec.full_name = fprofiles[i].full_name
            /\ rec.created_at = fprofiles[i].created_at
            /\ IsRowsInOrder(rec.user_roles, fdata.roles, id)
            /\ IsRowsInOrder(rec.user_credits, fdata.credits, id)
            /\ IsRowsInOrder(rec.social_accounts, fdata.social, id)
            /\ IsRowsInOrder(rec.wallets, fdata.wallets, id)
            /\ IF CountOf(fdata.bans, id) = 0
               THEN rec.ban_info = <<>>
               ELSE rec.ban_info = <<fdata.bans[KthIndexOf(fdata.bans, id, 1)]>>

C6_Witness ==
  /\ fpc = "done"
  /\ ffailed = {}
  /\ Len(fresult) = NumUsers
  /\ fresult[1].id = NumUsers
  /\ \E i \in DOMAIN fresult :
       /\ fresult[i].id = 2
       /\ CountOf(fdata.bans, 2) = 2
       /\ fresult[i].ban_info # <<>>
       /\ fresult[i].ban_info[1].reason = "old"
       /\ Len(fresult[i].wallets) = 2
       /\ fresult[i].wallets[1].blockchain = "cardano"
       /\ fresult[i].wallets[2].blockchain = "sui"

AdminGrants(table, userId) ==
  Cardinality({j \in DOMAIN table : table[j].user_id = userId /\ table[j].role = "admin"})

\* C7: a successful promote leaves the user with exactly one admin grant, a
\* successful demote with none, and a successful call that repeats the last
\* successful role write (same mutation, same user) leaves the role-grant
\* table as it was.
C7_RoleWritesIdempotent ==
  [][ (mpc = "write" /\ mpc' = "onSuccess" /\ mut.kind \in {"makeAdmin", "removeAdmin"}) =>
        /\ mut.kind = "makeAdmin" => AdminGrants(roles', mut.userId) = 1
        /\ mut.kind = "removeAdmin" => AdminGrants(roles', mut.userId) = 0
        /\ lastRoleOp = [kind |-> mut.kind, userId |-> mut.userId] => roles' = roles
        /\ \A j \in DOMAIN roles :
             ~(roles[j].user_id = mut.userId /\ roles[j].role = "admin") =>
               roles[j] \in Range(roles')
    ]_vars

C7_Witness ==
  /\ mpc = "onSuccess"
  /\ mut.kind = "makeAdmin"
  /\ repeated
  /\ AdminGrants(roles, mut.userId) = 1
  /\ Len(roles) >= 2

\* C8: a click on a cell whose tile is BLOCKED or EMPTY calls onTileClick not
\* at all, a click on any other cell calls it exactly once with the clicked
\* (row, col), whatever the selection, the hints and the animations are.
C8_ClickGating ==
  clickAt # NoCell =>
    IF board[clickAt] \in {"BLOCKED", "EMPTY"}
    THEN calls = <<>>
    ELSE calls = <<clickAt>>

C8_Witness ==
  /\ clickAt # NoCell
  /\ board[clickAt] = "EMPTY"
  /\ calls = <<>>
  /\ selectedTile = clickAt
  /\ Len(animations) = 1

EffectOf(type) ==
  CASE type = "match" -> "animate-ping "
    [] type = "drop" -> "animate-bounce "
    [] type = "invalid" -> "animate-pulse "
    [] OTHER -> ""

CoveringEvents(c) ==
  {i \in DOMAIN animations : animations[i].tiles # NoTiles /\ c \in animations[i].tiles}

\* C9: a rendered cell's animation effect is that of the last event of the
\* list whose cell set contains the cell (match: flash, drop: bounce,
\* invalid: pulse, any other kind: none); a cell no event covers has none.
C9_LatestEventWins ==
  rendered =>
    \A c \in Cells :
      IF CoveringEvents(c) = {}
      THEN animClass[c] = ""
      ELSE \E i \in CoveringEvents(c) :
             /\ \A j \in CoveringEvents(c) : j <= i
             /\ animClass[c] = EffectOf(animations[i].type)

C9_Witness ==
  /\ rendered
  /\ Len(animations) = 2
  /\ animations[1].type = "invalid"
  /\ animations[2].type = "match"
  /\ <<1, 2>> \in animations[1].tiles
  /\ <<1, 2>> \in animations[2].tiles
  /\ animClass[<<1, 2>>] = "animate-ping "

ActiveBans(table, userId) ==
  {j \in DOMAIN table : table[j].user_id = userId /\ table[j].is_active}

\* C10: a user whose last successful ban-table write is an unban has no
\* active ban record, however many bans were stacked before it, and one whose
\* last such write is a ban has at least one; a fetch whose ban query
\* succeeds reports ban_info = null for the former and a ban for the latter,
\* by the writes that had succeeded when it queried the bans.
C10_UnbanClearsStackedBans ==
  /\ \A u \in Users :
       /\ banHist[u] = "unban" => ActiveBans(bans, u) = {}
       /\ banHist[u] = "ban" => ActiveBans(bans, u) # {}
  /\ (fpc = "done" /\ "bans" \notin ffailed) =>
       \A i \in DOMAIN fresult :
         /\ fBanHist[fresult[i].id] = "unban" => fresult[i].ban_info = <<>>
         /\ fBanHist[fresult[i].id] = "ban" => fresult[i].ban_info # <<>>

C10_Witness ==
  /\ fpc = "done"
  /\ "bans" \notin ffailed
  /\ fBanHist[2] = "unban"
  /\ \E i \in DOMAIN fresult : fresult[i].id = 2 /\ fresult[i].ban_info = <<>>
  /\ Len(bans) = 2
  /\ \A j \in DOMAIN bans :
       bans[j].user_id = 2 /\ ~bans[j].is_active /\ bans[j].unbanned_at = 2
====
